---- MODULE Spec2Model ----
(***************************************************************************)
(* AmericanPricing (american_pricing.py): the Longstaff-Schwartz pricer    *)
(* get_ls_price and the MDP adapter built by get_tdl_obj.                   *)
(*                                                                         *)
(* Numbers.  Times are Python floats, modelled as IEEE-754 binary64 values *)
(* with round-to-nearest-even (the Dbl operators), since the adapter       *)
(* compares an accumulated time with expiry.  Money is exact arithmetic on *)
(* dyadic rationals n / 2^k (the Q operators): rate curves take values in  *)
(* units of ln 2, so that every discount factor exp(-ir) is a power of 2.  *)
(***************************************************************************)
EXTENDS Integers, Sequences, FiniteSets

(***************************************************************************)
(* binary64 arithmetic on non-negative values.  A value is zero or         *)
(* [hi, lo, e]: the 53-bit significand hi * 2^27 + lo, with                *)
(* 2^25 <= hi < 2^26 and 0 <= lo < 2^27, times 2^e.  What an operation     *)
(* drops below the last place is kept as a rounding code: 0 nothing,       *)
(* 1 less than half a unit, 2 exactly half, 3 more than half.              *)
(***************************************************************************)
RECURSIVE Pow2From(_)
Pow2From(d) == IF d <= 0 THEN 1 ELSE 2 * Pow2From(d - 1)

Pow2Table == [d \in 0..30 |-> Pow2From(d)]

\* 2^d, 0 <= d <= 30
Pow2(d) == Pow2Table[d]

Two13 == Pow2(13)
Two25 == Pow2(25)
Two26 == Pow2(26)
Two27 == Pow2(27)

DblZero == [hi |-> 0, lo |-> 0, e |-> 0]

\* the rounding code after one more bit b is dropped above the part rc
DropBit(b, rc) == IF b = 0 THEN (IF rc = 0 THEN 0 ELSE 1) ELSE (IF rc = 0 THEN 2 ELSE 3)

\* (h * 2^27 + l) shifted right by s bits
RECURSIVE ShiftRight(_, _, _, _)
ShiftRight(h, l, rc, s) ==
    IF s = 0 \/ (h = 0 /\ l = 0) THEN [h |-> h, l |-> l, rc |-> IF s = 0 THEN rc ELSE (IF rc = 0 THEN 0 ELSE 1)]
    ELSE ShiftRight(h \div 2, (h % 2) * Two26 + (l \div 2), DropBit(l % 2, rc), s - 1)

\* round to nearest, ties to even
DblRound(h, l, e, rc) ==
    IF ~(rc = 3 \/ (rc = 2 /\ l % 2 = 1)) THEN [hi |-> h, lo |-> l, e |-> e]
    ELSE IF l + 1 < Two27 THEN [hi |-> h, lo |-> l + 1, e |-> e]
    ELSE IF h + 1 < Two26 THEN [hi |-> h + 1, lo |-> 0, e |-> e]
    ELSE [hi |-> Two25, lo |-> 0, e |-> e + 1]

\* the binary64 value nearest to (h * 2^27 + l + the part rc) * 2^e, h >= 2^25
RECURSIVE DblNorm(_, _, _, _)
DblNorm(h, l, e, rc) ==
    IF h < Two26 THEN DblRound(h, l, e, rc)
    ELSE DblNorm(h \div 2, (h % 2) * Two26 + (l \div 2), e + 1, DropBit(l % 2, rc))

\* a > b
DblGt(a, b) ==
    IF a = DblZero THEN FALSE
    ELSE IF b = DblZero THEN TRUE
    ELSE IF a.e # b.e THEN a.e > b.e
    ELSE IF a.hi # b.hi THEN a.hi > b.hi
    ELSE a.lo > b.lo

\* a + b, correctly rounded
DblAdd(a, b) ==
    IF a = DblZero THEN b
    ELSE IF b = DblZero THEN a
    ELSE LET x  == IF a.e >= b.e THEN a ELSE b
             y  == IF a.e >= b.e THEN b ELSE a
             ys == ShiftRight(y.hi, y.lo, 0, x.e - y.e)
             l  == x.lo + ys.l
         IN  DblNorm(x.hi + ys.h + (l \div Two27), l % Two27, x.e, ys.rc)

\* the least p >= 0 with n * 2^p >= d
RECURSIVE LeadShift(_, _)
LeadShift(n, d) == IF n >= d THEN 0 ELSE 1 + LeadShift(2 * n, d)

\* n / d for integers 0 <= n, 0 < d, correctly rounded: the integer part of
\* n * 2^p / d, then four 13-bit limbs of the fraction by long division
DblDivInt(n, d) ==
    IF n = 0 THEN DblZero
    ELSE LET p  == LeadShift(n, d)
             nn == n * Pow2(p)
             q  == nn \div d
             r0 == nn % d
             c1 == (r0 * Two13) \div d
             r1 == (r0 * Two13) % d
             c2 == (r1 * Two13) \div d
             r2 == (r1 * Two13) % d
             c3 == (r2 * Two13) \div d
             r3 == (r2 * Two13) % d
             c4 == (r3 * Two13) \div d
             r4 == (r3 * Two13) % d
             fh == c1 * Two13 + c2
             fl == c3 * Two13 + c4
             rc == IF r4 = 0 THEN 0
                   ELSE IF 2 * r4 < d THEN 1 ELSE IF 2 * r4 = d THEN 2 ELSE 3
         IN  DblNorm(q * Two25 + (fh \div 2), (fh % 2) * Two26 + fl, 0 - 52 - p, rc)

\* float(n) for a small integer n >= 0
DblFromInt(n) == DblDivInt(n, 1)

\* floor(a) as an integer, for a < 2^26
DblFloor(a) ==
    IF a = DblZero \/ a.e < 0 - 52 THEN 0
    ELSE IF a.e <= 0 - 27 THEN a.hi \div Pow2(0 - 27 - a.e)
    ELSE a.hi * Pow2(27 + a.e) + (a.lo \div Pow2(0 - a.e))

(***************************************************************************)
(* Exact money: a dyadic rational [n, k] is n / 2^k, with k = 0 or n odd.  *)
(* A fraction [num, den] is the dyadic num over the positive integer den.  *)
(***************************************************************************)
RECURSIVE QNorm(_, _)
QNorm(n, k) == IF k > 0 /\ n % 2 = 0 THEN QNorm(n \div 2, k - 1) ELSE [n |-> n, k |-> k]

QInt(n) == [n |-> n, k |-> 0]

\* q * 2^d for an integer d of either sign: q * exp(d ln 2)
QMulPow2(q, d) == IF d >= 0 THEN QNorm(q.n * Pow2(d), q.k) ELSE QNorm(q.n, q.k - d)

QMulInt(q, i) == QNorm(q.n * i, q.k)

QScaled(q, K) == q.n * Pow2(K - q.k)

QMaxK(a, b) == IF a.k >= b.k THEN a.k ELSE b.k

QAdd(a, b) == QNorm(QScaled(a, QMaxK(a, b)) + QScaled(b, QMaxK(a, b)), QMaxK(a, b))

QLess(a, b) == QScaled(a, QMaxK(a, b)) < QScaled(b, QMaxK(a, b))

RECURSIVE QSum(_)
QSum(s) == IF Len(s) = 0 THEN QInt(0) ELSE QAdd(s[1], QSum(Tail(s)))

Frac(q, d) == [num |-> q, den |-> d]

\* q > f for a dyadic q and a fraction f
QGtFrac(q, f) == QLess(f.num, QMulInt(q, f.den))

(***************************************************************************)
(* The caller's configuration: the pure functions handed to the            *)
(* constructor, by name, and the arguments of get_ls_price / get_tdl_obj.  *)
(***************************************************************************)
MaxNumDt == 3
MaxPaths == 3
MaxDraws == 6
MaxEpisodeDt == 9

SpotPrices == {4}
Strikes == {5}
Expiries == {1, 2, 3}
Shocks == {-1, 1}
PayoffFuncs == {"call", "put"}
RateCurves == {"zero", "flat", "late"}
FeatureBases == {<<"one">>, <<"last">>}

Last(x) == x[Len(x)]

\* self.payoff(t, x): x[-1] - strike, or strike - x[-1]
Payoff(cfg, t, x) ==
    IF cfg.payoff = "call" THEN Last(x) - cfg.strike ELSE cfg.strike - Last(x)

\* self.ir(t): the integrated rate up to t, in units of ln 2; the curves
\* accrue at whole times: none, one unit per period, or one unit per period
\* after a first period at rate zero
IrAt(curve, n) ==
    CASE curve = "zero" -> 0
      [] curve = "flat" -> n
      [] curve = "late" -> IF n <= 1 THEN 0 ELSE n - 1

Ir(cfg, t) == IrAt(cfg.ir, DblFloor(t))

\* self.dispersion(t, x): a constant
Dispersion(cfg, t, x) == cfg.dispersion

\* num_utils.get_future_price_mean_var(x, t, delta_t, ir, dispersion):
\* the mean x * exp(ir(t + delta_t) - ir(t)) and the variance
\* dispersion(t, x)^2 * delta_t, the latter kept in units of delta_t
get_future_price_mean_var(cfg, x, t, delta_t) ==
    [m |-> x * Pow2(Ir(cfg, DblAdd(t, delta_t)) - Ir(cfg, t)),
     v |-> Dispersion(cfg, t, x) * Dispersion(cfg, t, x)]

\* the outcomes of np.random.normal(m, np.sqrt(v)) that are followed
NormalDraws(mv) == IF mv.v = 0 THEN {mv.m} ELSE {mv.m + s : s \in Shocks}


\* a feature function f(t, x) of the basis handed to get_ls_price
Feature(f, t, x) == IF f = "one" THEN 1 ELSE Last(x)

(***************************************************************************)
(* State.  cfg: the configuration of the call; dt: the local dt of         *)
(* get_ls_price and get_tdl_obj.  get_ls_price: pc, paths, cashflow, the   *)
(* backward loop variable t, and price / err once it ends;                 *)
(* fixedAt[i] and fixedVal[i] record the grid step at which the cash flow  *)
(* of path i was last set and the amount it was set to, prevCashflow the   *)
(* cash flows before the last pass of the backward loop.  The episode of   *)
(* the MDP: state = (time, price history), prev the state before the last  *)
(* transition, its reward, and the actions and rewards so far.             *)
(***************************************************************************)
VARIABLES cfg, dt, pc, paths, cashflow, prevCashflow, t, price, err,
          fixedAt, fixedVal, state, prev, reward, acts, rewards

lsVars == <<paths, cashflow, prevCashflow, t, price, err, fixedAt, fixedVal>>
mdpVars == <<state, prev, reward, acts, rewards>>
vars == <<cfg, dt, pc, paths, cashflow, prevCashflow, t, price, err,
          fixedAt, fixedVal, state, prev, reward, acts, rewards>>

\* dt = self.expiry / num_dt
StepDt(c) == DblDivInt(c.expiry, c.num_dt)

ValidConfig(c) ==
    c.expiry > 0 /\ c.num_dt > 0 /\ c.num_paths > 0 /\ c.dispersion >= 0

\* the calls of get_ls_price that are followed
ValidConfigs ==
    {c \in [spot_price : SpotPrices, strike : Strikes, payoff : PayoffFuncs,
            expiry : Expiries, dispersion : {0, 1}, ir : RateCurves,
            num_dt : 1..MaxNumDt, num_paths : 1..MaxPaths,
            feature_funcs : FeatureBases] :
        c.num_dt * c.num_paths <= MaxDraws}

\* the configurations section 7 of the specification calls invalid
InvalidConfigs ==
    [spot_price : SpotPrices, strike : Strikes, payoff : {"call"},
     expiry : {1}, dispersion : {-1, 1}, ir : {"flat"},
     num_dt : 0..2, num_paths : 0..2,
     feature_funcs : {<<"one">>}] \ ValidConfigs

\* the calls of get_tdl_obj that are followed
EpisodeConfigs ==
    {c \in [spot_price : SpotPrices, strike : Strikes, payoff : PayoffFuncs,
            expiry : Expiries, dispersion : {0, 1}, ir : RateCurves,
            num_dt : 1..MaxEpisodeDt, num_paths : {1},
            feature_funcs : {<<>>}] :
        c.dispersion = 0 \/ c.num_dt + 1 <= MaxDraws}

Idle ==
    /\ pc = "idle" /\ paths = <<>> /\ cashflow = <<>> /\ prevCashflow = <<>> /\ t = 0
    /\ price = Frac(QInt(0), 1) /\ err = "" /\ fixedAt = <<>> /\ fixedVal = <<>>

NoEpisode ==
    /\ state = [t |-> DblZero, price_arr |-> <<>>] /\ prev = state /\ reward = QInt(0)
    /\ acts = <<>> /\ rewards = <<>>

(***************************************************************************)
(* get_ls_price                                                            *)
(***************************************************************************)
Init ==
    /\ cfg \in ValidConfigs \cup InvalidConfigs
    /\ dt = DblZero
    /\ Idle /\ NoEpisode

\* lines 48-50: dt, and the array of paths with its first column
Enter ==
    /\ pc = "idle"
    /\ IF cfg.num_dt = 0
       THEN /\ pc' = "raised"
            /\ err' = "ZeroDivisionError"
            /\ UNCHANGED <<dt, paths>>
       ELSE /\ dt' = StepDt(cfg)
            /\ paths' = [i \in 1..cfg.num_paths |-> <<cfg.spot_price>>]
            /\ pc' = IF cfg.num_paths = 0 THEN "cashflow" ELSE "simulate"
            /\ UNCHANGED err
    /\ UNCHANGED <<cfg, cashflow, prevCashflow, t, price, fixedAt, fixedVal, mdpVars>>

\* the path the simulation loop of lines 51-62 is filling
CurrentPath == CHOOSE i \in 1..cfg.num_paths :
                  /\ Len(paths[i]) <= cfg.num_dt
                  /\ \A j \in 1..(i - 1) : Len(paths[j]) = cfg.num_dt + 1

\* the arguments of the call of lines 54-60 for step k of a path at price x
SimMomentArgs(x, k, delta_t) == <<x, DblFromInt(k), delta_t>>

\* lines 53-62, one pass of the inner loop: one draw
SimStep ==
    /\ pc = "simulate"
    /\ LET i == CurrentPath
           k == Len(paths[i]) - 1
           a == SimMomentArgs(Last(paths[i]), k, dt)
       IN  \E x \in NormalDraws(get_future_price_mean_var(cfg, a[1], a[2], a[3])) :
              /\ paths' = [paths EXCEPT ![i] = Append(@, x)]
              /\ pc' = IF i = cfg.num_paths /\ k + 1 = cfg.num_dt
                       THEN "cashflow" ELSE "simulate"
    /\ UNCHANGED <<cfg, dt, cashflow, prevCashflow, t, price, err, fixedAt, fixedVal, mdpVars>>

Max(a, b) == IF b > a THEN b ELSE a

\* line 63: the terminal cash flow of one path (unfloored: a slip)
TerminalCashflowUnfloored(c, path) ==
    QInt(Payoff(c, DblFromInt(c.expiry), path))

\* line 63: the terminal cash flow of one path
TerminalCashflow(c, path) ==
    QInt(Max(Payoff(c, DblFromInt(c.expiry), path), 0))

\* lines 63-65
CashflowInit ==
    /\ pc = "cashflow"
    /\ cashflow' = [i \in 1..cfg.num_paths |-> TerminalCashflow(cfg, paths[i])]
    /\ fixedAt' = [i \in 1..cfg.num_paths |-> cfg.num_dt]
    /\ fixedVal' = cashflow'
    /\ prevCashflow' = cashflow'
    /\ t' = cfg.num_dt - 1
    /\ pc' = IF cfg.num_dt - 1 >= 1 THEN "backward" ELSE "return"
    /\ UNCHANGED <<cfg, dt, paths, price, err, mdpVars>>

\* line 77: the exponent of disc = exp(ir(t) - ir(t + dt))
DiscExponent(c, k, delta_t) ==
    Ir(c, DblFromInt(k)) - Ir(c, DblAdd(DblFromInt(k), delta_t))

\* lines 79-80: the immediate payoff of every path at loop value k
StepPayoff(c, ps, k) ==
    [i \in 1..Len(ps) |-> Payoff(c, DblFromInt(k), SubSeq(ps[i], 1, k + 1))]

\* line 81: the in-the-money paths, in increasing order
RECURSIVE Indices(_, _)
Indices(payoff, n) ==
    IF n = 0 THEN <<>>
    ELSE IF payoff[n] > 0 THEN Append(Indices(payoff, n - 1), n)
    ELSE Indices(payoff, n - 1)

RECURSIVE DotII(_, _)
DotII(a, b) == IF Len(a) = 0 THEN 0 ELSE a[1] * b[1] + DotII(Tail(a), Tail(b))

RECURSIVE DotIQ(_, _)
DotIQ(a, y) ==
    IF Len(a) = 0 THEN QInt(0) ELSE QAdd(QMulInt(y[1], a[1]), DotIQ(Tail(a), Tail(y)))

\* lines 86-88: x_vals.dot(lstsq(x_vals, y_vals)[0]), the projection of
\* y_vals on the column space of x_vals (the minimum-norm solution gives 0
\* for a zero column), for a basis of one feature
LstsqFit(x_vals, y_vals) ==
    LET n  == Len(x_vals)
        c  == [j \in 1..n |-> x_vals[j][1]]
        cc == DotII(c, c)
        cy == DotIQ(c, y_vals)
    IN  [j \in 1..n |-> IF cc = 0 THEN Frac(QInt(0), 1)
                                   ELSE Frac(QMulInt(cy, c[j]), cc)]

\* line 94: the paths whose payoff exceeds the fitted continuation value
Exercising(payoff, indices, estimate) ==
    {indices[j] : j \in {j \in 1..Len(indices) :
                            QGtFrac(QInt(payoff[indices[j]]), estimate[j])}}

\* lines 93-95 with the position in indices used as the path (a slip)
ExerciseUpdateByPosition(cf, payoff, indices, estimate) ==
    [i \in 1..Len(cf) |->
        IF i <= Len(indices) /\ QGtFrac(QInt(payoff[indices[i]]), estimate[i])
        THEN QInt(payoff[indices[i]]) ELSE cf[i]]

\* lines 93-95: the paths that exercise take their payoff
ExerciseUpdate(cf, payoff, indices, estimate) ==
    [i \in 1..Len(cf) |->
        IF i \in Exercising(payoff, indices, estimate) THEN QInt(payoff[i]) ELSE cf[i]]

\* lines 77-88: the discounted cash flows, the payoffs, the in-the-money
\* paths and the fitted values of the pass of the loop at value k
StepRegression(c, ps, cf, k, delta_t) ==
    LET disc    == DiscExponent(c, k, delta_t)
        cf1     == [i \in 1..Len(cf) |-> QMulPow2(cf[i], disc)]
        payoff  == StepPayoff(c, ps, k)
        indices == Indices(payoff, Len(ps))
        x_vals  == [j \in 1..Len(indices) |->
                       [f \in 1..Len(c.feature_funcs) |->
                           Feature(c.feature_funcs[f], DblFromInt(k),
                                   SubSeq(ps[indices[j]], 1, k + 1))]]
        y_vals  == [j \in 1..Len(indices) |-> cf1[indices[j]]]
    IN  [cf1 |-> cf1, payoff |-> payoff, indices |-> indices,
         estimate |-> IF Len(indices) > 0 THEN LstsqFit(x_vals, y_vals) ELSE <<>>]

\* lines 65-95, one pass of the backward loop
BackwardStep ==
    /\ pc = "backward"
    /\ LET r == StepRegression(cfg, paths, cashflow, t, dt)
           x == Exercising(r.payoff, r.indices, r.estimate)
       IN  /\ cashflow' = IF Len(r.indices) > 0
                          THEN ExerciseUpdate(r.cf1, r.payoff, r.indices, r.estimate)
                          ELSE r.cf1
           /\ fixedAt' = [i \in 1..cfg.num_paths |-> IF i \in x THEN t ELSE fixedAt[i]]
           /\ fixedVal' = [i \in 1..cfg.num_paths |->
                              IF i \in x THEN QInt(r.payoff[i]) ELSE fixedVal[i]]
    /\ prevCashflow' = cashflow
    /\ t' = t - 1
    /\ pc' = IF t - 1 >= 1 THEN "backward" ELSE "return"
    /\ UNCHANGED <<cfg, dt, paths, price, err, mdpVars>>

\* line 99: cashflow * np.exp(-self.ir(dt))
FinalCashflow(c, cf, delta_t) ==
    [i \in 1..Len(cf) |-> QMulPow2(cf[i], 0 - Ir(c, delta_t))]

\* lines 97-100: max(payoff(0, [spot]), average); the average of no path is
\* nan, which max() never prefers to its first argument
LsPrice(c, cf, delta_t) ==
    LET p0  == Payoff(c, DblZero, <<c.spot_price>>)
        sum == QSum(FinalCashflow(c, cf, delta_t))
    IN  IF Len(cf) > 0 /\ QLess(QInt(p0 * Len(cf)), sum)
        THEN Frac(sum, Len(cf)) ELSE Frac(QInt(p0), 1)

Return ==
    /\ pc = "return"
    /\ price' = LsPrice(cfg, cashflow, dt)
    /\ pc' = "returned"
    /\ UNCHANGED <<cfg, dt, paths, cashflow, prevCashflow, t, err, fixedAt, fixedVal, mdpVars>>

(***************************************************************************)
(* get_tdl_obj: the MDP handed to the learner, and one episode of it       *)
(***************************************************************************)
InitEpisode ==
    /\ cfg \in EpisodeConfigs
    /\ dt = DblZero
    /\ Idle /\ NoEpisode

\* sa_func, lines 137-138
sa_func(s) == {TRUE, FALSE}

\* terminal_state, lines 140-143
terminal_state(c, s) == DblGt(s.t, DblFromInt(c.expiry))

\* init_s, lines 153-154
init_s(c) == [t |-> DblZero, price_arr |-> <<c.spot_price>>]

\* line 177
max_steps(c) == c.num_dt + 1

\* line 109 without the discount factor (a slip)
RewardUndiscounted(c, s, a) ==
    IF a THEN QInt(Payoff(c, s.t, s.price_arr)) ELSE QInt(0)

\* line 109: reward = exp(-ir(t)) * payoff(t, price_arr) if action else 0.
Reward(c, s, a) ==
    IF a THEN QMulPow2(QInt(Payoff(c, s.t, s.price_arr)), 0 - Ir(c, s.t)) ELSE QInt(0)

\* line 119 read as "expiry if action else t + delta_t"
NextTimeAtExpiry(c, tt, a, delta_t) ==
    IF a THEN DblFromInt(c.expiry) ELSE DblAdd(tt, delta_t)

\* line 119: next_t = (self.expiry if action else t) + delta_t
NextTime(c, tt, a, delta_t) ==
    DblAdd(IF a THEN DblFromInt(c.expiry) ELSE tt, delta_t)

\* the arguments of the call of lines 110-116
EpisodeMomentArgs(s, delta_t) == <<Last(s.price_arr), s.t, delta_t>>

\* line 135, and the start of an episode at init_s()
GetTdlObj ==
    /\ pc = "idle"
    /\ dt' = StepDt(cfg)
    /\ state' = init_s(cfg)
    /\ prev' = state'
    /\ pc' = "episode"
    /\ UNCHANGED <<cfg, lsVars, reward, acts, rewards>>

\* sr_func, lines 146-151, with state_reward_gen, lines 102-120: one
\* transition of an episode, which stops at a terminal state or after
\* max_steps transitions
sr_func(a) ==
    /\ pc = "episode"
    /\ ~terminal_state(cfg, state)
    /\ Len(acts) < max_steps(cfg)
    /\ LET m == EpisodeMomentArgs(state, dt)
       IN  \E next_price \in NormalDraws(get_future_price_mean_var(cfg, m[1], m[2], m[3])) :
              state' = [t |-> NextTime(cfg, state.t, a, dt),
                        price_arr |-> Append(state.price_arr, next_price)]
    /\ reward' = Reward(cfg, state, a)
    /\ prev' = state
    /\ acts' = Append(acts, a)
    /\ rewards' = Append(rewards, reward')
    /\ UNCHANGED <<cfg, dt, pc, lsVars>>

Step == \E a \in sa_func(state) : sr_func(a)

NextEpisode == GetTdlObj \/ Step

SpecEpisode == InitEpisode /\ [][NextEpisode]_vars

Next == Enter \/ SimStep \/ CashflowInit \/ BackwardStep \/ Return

Spec == Init /\ [][Next]_vars
(***************************************************************************)
(* Properties                                                              *)
(***************************************************************************)
Payoff0(c) == Payoff(c, DblZero, <<c.spot_price>>)

Simulated == \E i \in 1..Len(paths) : Len(paths[i]) > 1

AllHold == \A i \in 1..Len(acts) : ~acts[i]

\* the rate curve at the exact time k * expiry / num_dt of grid step k
IrGrid(c, k) == IrAt(c.ir, (k * c.expiry) \div c.num_dt)

\* the payoff of exercising at grid step k of a path, discounted to time 0
DirectValue(c, path, k) ==
    LET pay == Payoff(c, DblDivInt(k * c.expiry, c.num_dt), SubSeq(path, 1, k + 1))
    IN  QMulPow2(QInt(IF k = c.num_dt THEN Max(pay, 0) ELSE pay), 0 - IrGrid(c, k))

\* the best of the grid exercise times, by direct search
DirectSearchPrice(c, path) ==
    LET vals == {DirectValue(c, path, k) : k \in 0..c.num_dt}
    IN  CHOOSE v \in vals : \A w \in vals : ~QLess(v, w)

\* C1: a call with an invalid configuration (non-positive expiry, num_dt or
\* num_paths, negative dispersion) simulates no path and returns no price:
\* it ends in an invalid-argument error.
C1_InvalidRejected ==
    ~ValidConfig(cfg) =>
        /\ ~Simulated
        /\ pc # "returned"

\* C2: the state after a transition has time expiry when the action was
\* exercise and t + dt when it was hold.
C2_NextTimeExpiry ==
    Len(acts) > 0 =>
        state.t = IF Last(acts) THEN DblFromInt(cfg.expiry) ELSE DblAdd(prev.t, dt)

\* C2, amended: the state after a transition has time expiry + dt when the
\* action was exercise and t + dt when it was hold.
C2_NextTimePastExpiry ==
    Len(acts) > 0 =>
        state.t = IF Last(acts) THEN DblAdd(DblFromInt(cfg.expiry), dt)
                  ELSE DblAdd(prev.t, dt)

C2_Witness ==
    /\ Len(acts) > 1 /\ Last(acts)
    /\ state.t = DblAdd(DblFromInt(cfg.expiry), dt)
    /\ state.t # DblAdd(prev.t, dt)

\* C3: the reward of a transition is exp(-ir(t)) * payoff(t, price history)
\* on the history before the new price is appended when the action is
\* exercise, and 0 when it is hold, whatever price is drawn.
C3_Reward ==
    Len(acts) > 0 =>
        reward = IF Last(acts)
                 THEN QMulPow2(QInt(Payoff(cfg, prev.t, prev.price_arr)), 0 - Ir(cfg, prev.t))
                 ELSE QInt(0)

C3_Witness ==
    /\ Len(acts) > 1 /\ Last(acts)
    /\ reward.n > 0 /\ reward.k > 0
    /\ Payoff(cfg, state.t, state.price_arr) # Payoff(cfg, prev.t, prev.price_arr)

\* C4: for a valid configuration every cash flow is non-negative, at its
\* initialisation and after every pass of the backward loop, and the price
\* returned is at least max(payoff(0, [spot]), 0).
C4_LowerBound ==
    ValidConfig(cfg) =>
        /\ \A i \in 1..Len(cashflow) : cashflow[i].n >= 0
        /\ pc = "returned" =>
              ~QLess(price.num, QInt(Max(Payoff0(cfg), 0) * price.den))

C4_Witness ==
    /\ ValidConfig(cfg) /\ pc = "returned"
    /\ Payoff0(cfg) < 0
    /\ \E i \in 1..cfg.num_paths : Payoff(cfg, DblFromInt(cfg.expiry), paths[i]) < 0
    /\ \E i \in 1..cfg.num_paths : fixedAt[i] < cfg.num_dt
    /\ price.num.n > 0

\* C5: a pass of the backward loop leaves every path whose immediate payoff
\* is not positive with the one-step discount of the cash flow it had, and
\* when no path is in the money the whole vector is the discounted one.
C5_Frame ==
    (pc \in {"backward", "return", "returned"} /\ t < cfg.num_dt - 1) =>
        LET k == t + 1
            p == StepPayoff(cfg, paths, k)
            d == DiscExponent(cfg, k, dt)
        IN  /\ \A i \in 1..cfg.num_paths :
                  p[i] <= 0 => cashflow[i] = QMulPow2(prevCashflow[i], d)
            /\ (\A i \in 1..cfg.num_paths : p[i] <= 0) =>
                  cashflow = [i \in 1..cfg.num_paths |-> QMulPow2(prevCashflow[i], d)]

C5_Witness ==
    /\ pc \in {"backward", "return"} /\ t < cfg.num_dt - 1
    /\ LET k == t + 1
           p == StepPayoff(cfg, paths, k)
       IN  /\ DiscExponent(cfg, k, dt) < 0
           /\ \E i, j \in 1..cfg.num_paths :
                 /\ p[i] <= 0 /\ prevCashflow[i].n > 0
                 /\ cashflow[i] # prevCashflow[i]
                 /\ p[j] > 0

\* C6: with dispersion 0 the price returned is the largest, over the grid
\* times k * dt, of the payoff along the deterministic path discounted by
\* exp(-ir(k * dt)), floored at 0 at expiry.
C6_ZeroDispersion ==
    (ValidConfig(cfg) /\ cfg.dispersion = 0 /\ pc = "returned") =>
        price.num = QMulInt(DirectSearchPrice(cfg, paths[1]), price.den)

\* C7: when the price is averaged, a cash flow fixed at grid step k has
\* been multiplied by exactly exp(-ir(k * dt)).
C7_Discount ==
    (ValidConfig(cfg) /\ pc = "returned") =>
        \A i \in 1..cfg.num_paths :
            FinalCashflow(cfg, cashflow, dt)[i]
                = QMulPow2(fixedVal[i], 0 - IrGrid(cfg, fixedAt[i]))

\* C8: an episode from init_s() is terminal after num_dt + 1 transitions at
\* the latest, and the all-hold episode is not terminal before that: it is
\* still running after num_dt holds.
C8_Episode ==
    pc = "episode" =>
        /\ Len(acts) = cfg.num_dt + 1 => terminal_state(cfg, state)
        /\ (AllHold /\ Len(acts) <= cfg.num_dt) => ~terminal_state(cfg, state)

\* C9: the state after an exercise is terminal, so an episode exercises at
\* most once and at most one of its transitions has a non-zero reward.
C9_ExerciseTerminal ==
    /\ (Len(acts) > 0 /\ Last(acts)) => terminal_state(cfg, state)
    /\ Cardinality({i \in 1..Len(acts) : acts[i]}) <= 1
    /\ Cardinality({i \in 1..Len(rewards) : rewards[i] # QInt(0)}) <= 1

C9_Witness ==
    /\ Len(acts) > 2 /\ Last(acts)
    /\ reward # QInt(0)
    /\ ~DblGt(prev.t, DblFromInt(cfg.expiry))
    /\ terminal_state(cfg, state)

\* C10: for step k of a trajectory the simulation of get_ls_price and the
\* hold transition from the state after k holds call the moment estimator
\* with the same price, time and dt.
C10_SameArgs ==
    (pc = "episode" /\ AllHold /\ Len(acts) <= cfg.num_dt - 1) =>
        EpisodeMomentArgs(state, dt)
            = SimMomentArgs(Last(state.price_arr), Len(acts), dt)
====
